---- MODULE Spec2Model ----
(***************************************************************************)
(* Recurrence and notification-scheduling engine of the "don't forget 2"   *)
(* reminder application: next-occurrence computation, due/completion       *)
(* notification scheduling on the device's local notification store, the   *)
(* role-based presentation handler, the duplicate-delivery guard and the   *)
(* location tracking side process.                                         *)
(***************************************************************************)
EXTENDS Integers, FiniteSets, Sequences, TLC

(***************************************************************************)
(* Recurrence: instants are integers, DayUnits units to a calendar day.    *)
(* A time-of-day is minute * SubMinute + (seconds and milliseconds part).  *)
(* Day 0 is a Sunday.                                                      *)
(***************************************************************************)
MaxDay == 16
MaxWeekFrequency == 3
MaxSelectedDays == 2
MinutesPerDay == 2
SubMinute == 2

DayUnits == MinutesPerDay * SubMinute
WeekUnits == 7 * DayUnits
NoDate == 0 - 1

VARIABLES
  startDate,        \* recurrenceConfig.startDate (an instant)
  selectedDays,     \* recurrenceConfig.selectedDays (weekday numbers 0..6)
  weekFrequency,    \* recurrenceConfig.weekFrequency
  today,            \* new Date() at the call
  nextDate,         \* the instant getNextOccurrence returned, NoDate before the call
  daysScanned,      \* the candidate days the while loop of that call examined
  storedDue,        \* reminder.dueDate of the recurring reminder
  recurringCall     \* the last scheduleReminderNotification call on a recurring reminder

recurrenceVars ==
  <<startDate, selectedDays, weekFrequency, today, nextDate, daysScanned, storedDue,
    recurringCall>>

\* Date.prototype.getDay
getDay(d) == (d \div DayUnits) % 7

\* Date.prototype.setHours(h, m, 0, 0) with h:m taken from `from`:
\* the date of d, the hour and minute of `from`, seconds and milliseconds 0
setHours(d, from) ==
  (d \div DayUnits) * DayUnits + ((from % DayUnits) \div SubMinute) * SubMinute

\* JavaScript's remainder: the sign of the dividend
JsRem(a, b) == IF a >= 0 THEN a % b ELSE -((-a) % b)

\* Math.floor((nextDate.getTime() - startDate.getTime()) / (7 * 24 * 60 * 60 * 1000))
weeksSinceStart(d, start) == (d - start) \div WeekUnits

AlignedAlways(d, start, freq) == TRUE

\* weeksSinceStart % weekFrequency === 0
Aligned(d, start, freq) == JsRem(weeksSinceStart(d, start), freq) = 0

OneCycle(freq) == 7 * freq

\* const maxDays = 7 * weekFrequency * 2
maxDays(freq) == 7 * freq * 2

RECURSIVE scanDays(_, _, _, _, _)
\* the while loop: d is nextDate at the top of the loop
scanDays(d, daysChecked, start, days, freq) ==
  IF daysChecked < maxDays(freq)
  THEN LET nd == d + DayUnits
       IN IF getDay(nd) \in days /\ Aligned(nd, start, freq)
          THEN setHours(nd, start)
          ELSE scanDays(nd, daysChecked + 1, start, days, freq)
  ELSE d

RECURSIVE scanLength(_, _, _, _, _)
\* the number of times the loop body of scanDays runs
scanLength(d, daysChecked, start, days, freq) ==
  IF daysChecked < maxDays(freq)
  THEN LET nd == d + DayUnits
       IN IF getDay(nd) \in days /\ Aligned(nd, start, freq)
          THEN 1
          ELSE 1 + scanLength(nd, daysChecked + 1, start, days, freq)
  ELSE 0

\* startDate > today && selectedDays.includes(startDate.getDay().toString())
startsLater(start, days, now) == start > setHours(now, start) /\ getDay(start) \in days

getNextOccurrence(start, days, freq, now) ==
  LET td == setHours(now, start)
  IN IF start > td /\ getDay(start) \in days
     THEN start
     ELSE scanDays(td, 0, start, days, freq)

Weekdays == 0..6
DaySets == {s \in SUBSET Weekdays : s # {} /\ Cardinality(s) <= MaxSelectedDays}
Instants == 0..((MaxDay + 1) * DayUnits - 1)

\* trigger date of the scheduled notification, NoDate when the call returned
\* without scheduling: legacy is the version that handles recurrenceConfig,
\* current the version that schedules on dueDate alone
NoRecurringCall == [called |-> FALSE, legacy |-> NoDate, current |-> NoDate]

InitRecurrence ==
  /\ startDate \in Instants
  /\ selectedDays \in DaySets
  /\ weekFrequency \in 1..MaxWeekFrequency
  /\ today \in {d * DayUnits : d \in 0..MaxDay}
  /\ nextDate = NoDate
  /\ daysScanned = 0
  /\ storedDue = today
  /\ recurringCall = NoRecurringCall

(***************************************************************************)
(* Notification engine.  Instants are seconds; the clock advances in       *)
(* steps of TickSeconds.  The notification store is the device's set of    *)
(* scheduled local notifications.                                          *)
(***************************************************************************)
MaxTicks == 2
TickSeconds == 30
MaxNotifications == 3
MaxDeliveries == 2
MaxSnoozes == 2

COMPLETION_DELAY == 30
SNOOZE_SECONDS == 60

Users == {"p1", "p2", "p3", "c1"}
Joiners == {"p2", "p3"}
ReminderIds == {"r1"}
Editors == {"e1"}
FamilyId == "fam1"
None == 0

NoUser == [exists |-> FALSE, role |-> "none", familyId |-> "none"]
UserDoc(role) == [exists |-> TRUE, role |-> role, familyId |-> FamilyId]

NoReminder ==
  [exists |-> FALSE, dueDate |-> 0, status |-> "none", createdBy |-> "none",
   assignedTo |-> "none", familyId |-> "none", isTest |-> FALSE, snoozeCount |-> 0]

NoCall ==
  [called |-> FALSE, dueDate |-> 0, at |-> 0, result |-> None, reached |-> FALSE,
   added |-> 0]

\* flow: how handleComplete ended ("ok", or the call that rejected); called:
\* sendCompletionNotification was invoked; the rest describes that invocation
NoDispatch ==
  [flow |-> "none", called |-> FALSE, reminderId |-> "none", at |-> 0,
   creator |-> "none", completedBy |-> "none", clean |-> FALSE, readOK |-> FALSE,
   creatorOK |-> FALSE, completerOK |-> FALSE, familyOK |-> FALSE,
   proceeded |-> FALSE, guardians |-> {}, valid |-> {}, failing |-> {}, added |-> {},
   result |-> None]

IdleEdit ==
  [pc |-> "idle", reminderId |-> "none", existing |-> None, newId |-> None,
   remaining |-> 0, cause |-> "none"]

VARIABLES
  now,                   \* the device clock
  currentUser,           \* the signed-in user (auth.currentUser / useAuth().user)
  users,                 \* the users collection
  parentIds,             \* families/<FamilyId>.parentIds
  reminders,             \* the reminders collection
  scheduled,             \* scheduled local notifications (expo-notifications)
  nextId,                \* next notification identifier the service issues
  lastSchedule,          \* the last scheduleReminderNotification call and its outcome
  dispatch,              \* the last sendCompletionNotification call and its outcome
  edit,                  \* EditReminderScreen.handleSubmit, per open edit screen
  fired,                 \* identifiers of notifications that have been delivered
  handledNotifications,  \* App.tsx handledNotifications.current
  callbacks,             \* 'received' callbacks per identifier in this session
  prompted,              \* Alert prompts the received listener raised, per identifier
  alerts,                \* open Alert dialogs (the notification each one is about)
  presented,             \* the last handleNotification call and its decision
  position,              \* the device's position (metres along a meridian)
  reminderLocations,     \* LocationService.reminderLocations
  storedLocation,        \* reminders/<id>.reminderLocation
  locationSubscription,  \* LocationService.locationSubscription
  subscriptions,         \* the position watchers the provider keeps delivering to
  nextSubscription,      \* next subscription handle the provider issues
  pendingAlerts,         \* checkLocationChange calls awaiting their schedule call
  movementAlerts,        \* movement alerts raised, per reminder
  lastUpdate,            \* the last position update a watcher delivered
  timers,                \* pending setTimeout callbacks that start tracking
  completeScreen,        \* CompleteReminderScreen: route.params.reminderId, checklist
  storedChecklist,       \* reminders/<id>.checklist
  tray,                  \* notifications on display (banner, notification centre)
  tapPrompted,           \* Alert prompts the response listener raised, per identifier
  tapAlerts              \* open Alert dialogs the response listener raised

storeVars == <<users, parentIds, reminders>>
serviceVars == <<scheduled, nextId>>
guardVars == <<fired, handledNotifications, callbacks, prompted, alerts>>
gateVars == <<presented>>
trackVars ==
  <<position, reminderLocations, storedLocation, locationSubscription, subscriptions,
    nextSubscription, pendingAlerts, movementAlerts, lastUpdate>>
locationVars == <<trackVars, timers>>
checklistVars == <<completeScreen, storedChecklist>>
responseVars == <<tray, tapPrompted, tapAlerts>>
restVars == <<recurrenceVars, gateVars, locationVars, checklistVars>>
asideVars == <<restVars, responseVars>>
engineVars ==
  <<now, currentUser, storeVars, serviceVars, lastSchedule, dispatch, edit, guardVars>>

Times == {k * TickSeconds : k \in 0..MaxTicks}

\* the checklist of a reminder: item ids, each with its `completed` flag
ChecklistItems == {"i1", "i2"}
Unchecked == [i \in ChecklistItems |-> FALSE]
NoScreen == [reminderId |-> "none", checklist |-> Unchecked]

IdleChecklist ==
  /\ completeScreen = NoScreen
  /\ storedChecklist = [r \in ReminderIds |-> Unchecked]
NotificationIds == 1..MaxNotifications

IdleResponse ==
  /\ tray = {}
  /\ tapPrompted = [i \in NotificationIds |-> 0]
  /\ tapAlerts = {}

InitEngine ==
  /\ now = 0
  /\ currentUser = "p1"
  /\ users = [u \in Users |->
               IF u = "p1" THEN UserDoc("parent")
               ELSE IF u = "c1" THEN UserDoc("child") ELSE NoUser]
  /\ parentIds = <<"p1">>
  /\ reminders = [r \in ReminderIds |-> NoReminder]
  /\ scheduled = {}
  /\ nextId = 1
  /\ lastSchedule = NoCall
  /\ dispatch = NoDispatch
  /\ edit = [e \in Editors |-> IdleEdit]
  /\ fired = {}
  /\ handledNotifications = {}
  /\ callbacks = [i \in NotificationIds |-> 0]
  /\ prompted = [i \in NotificationIds |-> 0]
  /\ alerts = {}

\* notifications in the store whose payload names reminder r
ForReminder(r) == {n \in scheduled : n.reminderId = r}

leaveScheduled(store, identifier) == store

\* Notifications.cancelScheduledNotificationAsync(identifier)
cancelScheduledNotification(store, identifier) == {n \in store : n.id # identifier}

vars == <<recurrenceVars, engineVars, gateVars, locationVars, checklistVars, responseVars>>

\* the recurrence inputs are not in use while the engine runs
IdleRecurrence ==
  /\ startDate = 0
  /\ selectedDays = {0}
  /\ weekFrequency = 1
  /\ today = 0
  /\ nextDate = NoDate
  /\ daysScanned = 0
  /\ storedDue = 0
  /\ recurringCall = NoRecurringCall

ComputeNextOccurrence ==
  /\ nextDate = NoDate
  /\ nextDate' = getNextOccurrence(startDate, selectedDays, weekFrequency, today)
  /\ daysScanned' =
       IF startsLater(startDate, selectedDays, today) THEN 0
       ELSE scanLength(setHours(today, startDate), 0, startDate, selectedDays,
                       weekFrequency)
  /\ UNCHANGED <<startDate, selectedDays, weekFrequency, today, storedDue, recurringCall,
                 engineVars, gateVars, locationVars, checklistVars,
                 responseVars>>

(***************************************************************************)
(* Environment                                                             *)
(***************************************************************************)
Tick ==
  /\ now < MaxTicks * TickSeconds
  /\ now' = now + TickSeconds
  /\ UNCHANGED <<asideVars, currentUser, storeVars, serviceVars, lastSchedule,
                 dispatch, edit, guardVars>>

\* another family member signs in on this device
SignIn(u) ==
  /\ u # currentUser
  /\ users[u].exists
  /\ \A e \in Editors : edit[e].pc = "idle"
  /\ currentUser' = u
  /\ UNCHANGED <<asideVars, now, storeVars, serviceVars, lastSchedule, dispatch,
                 edit, guardVars>>

\* FamilyService.registerWithFamilyInvite with a parent code: the family
\* document is updated first, then the user profile is written; a failure of
\* the second write is caught and leaves the id listed without a profile
registerWithFamilyInvite(u, profileOK) ==
  /\ u \in Joiners
  /\ \A i \in 1..Len(parentIds) : parentIds[i] # u
  /\ parentIds' = Append(parentIds, u)
  /\ users' = IF profileOK THEN [users EXCEPT ![u] = UserDoc("parent")] ELSE users
  /\ UNCHANGED <<asideVars, now, currentUser, reminders, serviceVars, lastSchedule,
                 dispatch, edit, guardVars>>

\* the users collection is shared: the profile of a joined account is deleted,
\* or rewritten to name another family, while the family document still
\* lists the account
UserDocChanged(u, left) ==
  /\ u \in Joiners
  /\ users[u].exists
  /\ users[u].familyId = FamilyId
  /\ users' = [users EXCEPT
                 ![u] = IF left = "deleted" THEN NoUser
                        ELSE [users[u] EXCEPT !.familyId = "bruggs-family"]]
  /\ UNCHANGED <<asideVars, now, currentUser, parentIds, reminders, serviceVars,
                 lastSchedule, dispatch, edit, guardVars>>

(***************************************************************************)
(* NotificationService.scheduleReminderNotification                        *)
(***************************************************************************)
PastDueNever(dueDate, at) == FALSE

\* if (dueDate < now) return null
PastDue(dueDate, at) == dueDate < at

Skipped == [result |-> None, reached |-> FALSE, added |-> {}, timers |-> {}]

dueNotification(reminder) ==
  [id |-> nextId, reminderId |-> reminder.id, type |-> "due",
   date |-> reminder.dueDate, isTest |-> reminder.isTest]

\* setTimeout(() => LocationService.startLocationTracking(reminder.id),
\*            dueDate.getTime() - now.getTime())
trackingTimer(reminder) ==
  [id |-> nextId, reminderId |-> reminder.id, at |-> reminder.dueDate]

\* hasPermission: requestPermissions(); readOK: the getDoc calls resolve;
\* scheduleOK: Notifications.scheduleNotificationAsync resolves
scheduleReminderNotification(reminder, hasPermission, readOK, scheduleOK) ==
  LET creatorDoc == users[reminder.createdBy]
      recipientId == IF creatorDoc.role = "parent"
                     THEN reminder.assignedTo ELSE reminder.createdBy
      recipientDoc == users[recipientId]
  IN IF ~hasPermission \/ ~readOK THEN Skipped
     ELSE IF ~creatorDoc.exists \/ creatorDoc.familyId # reminder.familyId THEN Skipped
     ELSE IF ~recipientDoc.exists \/ recipientDoc.familyId # reminder.familyId
     THEN Skipped
     ELSE IF PastDue(reminder.dueDate, now) THEN Skipped
     ELSE IF ~scheduleOK
     THEN [result |-> None, reached |-> TRUE, added |-> {}, timers |-> {}]
     ELSE [result |-> nextId, reached |-> TRUE, added |-> {dueNotification(reminder)},
           timers |-> IF creatorDoc.role = "parent"
                      THEN {trackingTimer(reminder)} ELSE {}]

recordCall(reminder, out) ==
  [called |-> TRUE, dueDate |-> reminder.dueDate, at |-> now,
   result |-> out.result, reached |-> out.reached, added |-> Cardinality(out.added)]

(***************************************************************************)
(* scheduleReminderNotification on a recurring reminder                    *)
(***************************************************************************)
\* the version with a recurrence branch: the past-due test on the stored
\* dueDate comes first, then getNextOccurrence and `if (nextDate > now)`;
\* no branch schedules when that test fails
scheduleRecurringNotification(dueDate, start, days, freq, at) ==
  IF PastDue(dueDate, at) THEN NoDate
  ELSE LET nd == getNextOccurrence(start, days, freq, at)
       IN IF nd > at THEN nd ELSE NoDate

\* the version without a recurrence branch: trigger { date: dueDate }
scheduleOnDueDate(dueDate, at) == IF PastDue(dueDate, at) THEN NoDate ELSE dueDate

\* a recurring reminder is handed to scheduleReminderNotification (permission
\* granted, every read and the schedule call resolving)
ScheduleRecurringReminder ==
  /\ ~recurringCall.called
  /\ recurringCall' =
       [called |-> TRUE,
        legacy |-> scheduleRecurringNotification(storedDue, startDate, selectedDays,
                                                 weekFrequency, today),
        current |-> scheduleOnDueDate(storedDue, today)]
  /\ UNCHANGED <<startDate, selectedDays, weekFrequency, today, nextDate, daysScanned,
                 storedDue,
                 engineVars, gateVars, locationVars, checklistVars,
                 responseVars>>

(***************************************************************************)
(* AddReminderScreen.handleSubmit: addDoc, then schedule                   *)
(***************************************************************************)
AddReminderSubmit(r, due, test, hasPermission, readOK, scheduleOK) ==
  LET doc == [exists |-> TRUE, dueDate |-> due, status |-> "pending",
              createdBy |-> currentUser, assignedTo |-> "c1",
              familyId |-> users[currentUser].familyId, isTest |-> test,
              snoozeCount |-> 0]
      reminder == [id |-> r, dueDate |-> due, createdBy |-> currentUser,
                   assignedTo |-> "c1", familyId |-> users[currentUser].familyId,
                   isTest |-> test]
      out == scheduleReminderNotification(reminder, hasPermission, readOK, scheduleOK)
  IN /\ ~reminders[r].exists
     /\ nextId <= MaxNotifications
     /\ reminders' = [reminders EXCEPT ![r] = doc]
     /\ scheduled' = scheduled \cup out.added
     /\ nextId' = nextId + Cardinality(out.added)
     /\ lastSchedule' = recordCall(reminder, out)
     /\ timers' = timers \cup out.timers
     /\ storedChecklist' = [storedChecklist EXCEPT ![r] = Unchecked]
     /\ UNCHANGED <<recurrenceVars, gateVars, trackVars, completeScreen, responseVars, now,
                    currentUser, users, parentIds, dispatch, edit, guardVars>>

(***************************************************************************)
(* EditReminderScreen: loadReminder, then handleSubmit step by step        *)
(***************************************************************************)
EditOpen(e, r) ==
  /\ edit[e].pc = "idle"
  /\ reminders[r].exists
  /\ reminders[r].status = "pending"
  /\ edit' = [edit EXCEPT ![e] = [IdleEdit EXCEPT !.pc = "form", !.reminderId = r]]
  /\ UNCHANGED <<asideVars, now, currentUser, storeVars, serviceVars, lastSchedule,
                 dispatch, guardVars>>

\* checkScheduledNotifications (an enumeration that fails yields []) and
\* scheduledNotifications.find(n => n.content.data?.reminderId === reminderId)
EditEnumerate(e, enumOK) ==
  /\ edit[e].pc = "form"
  /\ LET found == IF enumOK THEN ForReminder(edit[e].reminderId) ELSE {}
     IN IF found = {}
        THEN edit' = [edit EXCEPT ![e].pc = "update"]
        ELSE \E n \in found :
               edit' = [edit EXCEPT ![e].pc = "cancel", ![e].existing = n.id]
  /\ UNCHANGED <<asideVars, now, currentUser, storeVars, serviceVars, lastSchedule,
                 dispatch, guardVars>>

\* await Notifications.cancelScheduledNotificationAsync(existingNotification.identifier);
\* a rejection is caught by handleSubmit's catch
EditCancel(e, cancelOK) ==
  /\ edit[e].pc = "cancel"
  /\ IF cancelOK
     THEN LET left == cancelScheduledNotification(scheduled, edit[e].existing)
          IN /\ scheduled' = left
             /\ edit' = [edit EXCEPT
                  ![e].pc = "update",
                  ![e].remaining =
                     Cardinality({n \in left : n.reminderId = edit[e].reminderId})]
     ELSE /\ scheduled' = scheduled
          /\ edit' = [edit EXCEPT ![e].pc = "failed", ![e].cause = "cancel"]
  /\ UNCHANGED <<asideVars, now, currentUser, storeVars, nextId, lastSchedule,
                 dispatch, guardVars>>

\* await updateDoc(reminderRef, updatedData)
EditUpdate(e, due, test, updateOK) ==
  /\ edit[e].pc = "update"
  /\ LET r == edit[e].reminderId
     IN IF updateOK
        THEN /\ reminders' = [reminders EXCEPT ![r].dueDate = due, ![r].isTest = test]
             /\ edit' = [edit EXCEPT ![e].pc = "schedule"]
        ELSE /\ reminders' = reminders
             /\ edit' = [edit EXCEPT ![e].pc = "failed", ![e].cause = "store"]
  /\ UNCHANGED <<asideVars, now, currentUser, users, parentIds, serviceVars,
                 lastSchedule, dispatch, guardVars>>

\* await NotificationService.scheduleReminderNotification({...updatedData,
\*   id: reminderId, familyId: user?.familyId, createdBy: user?.id, ...})
EditSchedule(e, hasPermission, readOK, scheduleOK) ==
  /\ edit[e].pc = "schedule"
  /\ nextId <= MaxNotifications
  /\ LET r == edit[e].reminderId
         reminder == [id |-> r, dueDate |-> reminders[r].dueDate,
                      createdBy |-> currentUser, assignedTo |-> reminders[r].assignedTo,
                      familyId |-> users[currentUser].familyId,
                      isTest |-> reminders[r].isTest]
         out == scheduleReminderNotification(reminder, hasPermission, readOK, scheduleOK)
     IN /\ scheduled' = scheduled \cup out.added
        /\ nextId' = nextId + Cardinality(out.added)
        /\ lastSchedule' = recordCall(reminder, out)
        /\ edit' = [edit EXCEPT ![e].pc = "done", ![e].newId = out.result]
        /\ timers' = timers \cup out.timers
  /\ UNCHANGED <<recurrenceVars, gateVars, trackVars, checklistVars, responseVars, now,
                 currentUser,
                 storeVars, dispatch, guardVars>>

\* navigation.goBack(), or leaving the screen after the failure alert
EditClose(e) ==
  /\ edit[e].pc \in {"form", "done", "failed"}
  /\ edit' = [edit EXCEPT ![e] = IdleEdit]
  /\ UNCHANGED <<asideVars, now, currentUser, storeVars, serviceVars, lastSchedule,
                 dispatch, guardVars>>

(***************************************************************************)
(* NotificationService.sendCompletionNotification                          *)
(***************************************************************************)
Range(seq) == {seq[i] : i \in 1..Len(seq)}

IndexOf(p) == CHOOSE i \in 1..Len(parentIds) : parentIds[i] = p

ListedIsEnough(p, fam) == TRUE

\* per parent: the user document exists and names the reminder's family
StillInFamily(p, fam) == users[p].exists /\ users[p].familyId = fam

\* the family documents of the families collection
Families == {FamilyId}

ResolvedAlways(userDoc, fam) == TRUE

\* creator and completer: the document exists and names the reminder's family
Resolved(userDoc, fam) == userDoc.exists /\ userDoc.familyId = fam

\* new Date(now.getTime() + 30000)
delayTime(at) == at + COMPLETION_DELAY

FirstParentOnly(fam) == {p \in Range(parentIds) : IndexOf(p) = 1 /\ StillInFamily(p, fam)}

\* the parents whose mapper reaches Notifications.scheduleNotificationAsync
Recipients(fam) == {p \in Range(parentIds) : StillInFamily(p, fam)}

NotSent == [added |-> {}, result |-> None, creator |-> "none", proceeded |-> FALSE]

\* failing: the parents whose mapper rejects (its getDoc or its schedule call)
sendCompletionNotification(reminder, completedBy, hasPermission, readOK, failing) ==
  LET creatorDoc == users[reminder.createdBy]
      completerDoc == users[completedBy]
      served == Recipients(reminder.familyId) \ failing
      seat(p) == Cardinality({q \in served : IndexOf(q) < IndexOf(p)})
      added == {[id |-> nextId + seat(p), reminderId |-> reminder.id,
                 type |-> "completion", date |-> delayTime(now),
                 isTest |-> reminder.isTest] : p \in served}
      first == parentIds[1]
  IN IF ~hasPermission \/ ~readOK THEN NotSent
     ELSE IF ~Resolved(creatorDoc, reminder.familyId) THEN NotSent
     ELSE IF creatorDoc.role # "parent" THEN [NotSent EXCEPT !.creator = creatorDoc.role]
     ELSE IF ~Resolved(completerDoc, reminder.familyId)
     THEN [NotSent EXCEPT !.creator = creatorDoc.role]
     ELSE IF reminder.familyId \notin Families
     THEN [NotSent EXCEPT !.creator = creatorDoc.role]
     ELSE [added |-> added,
           \* Promise.all rejects when a mapper rejects; otherwise notificationIds[0]
           result |-> IF failing \cap Range(parentIds) # {} \/ first \notin served
                      THEN None ELSE nextId,
           creator |-> creatorDoc.role,
           proceeded |-> TRUE]

(***************************************************************************)
(* CompleteReminderScreen.handleComplete: the status write, then the       *)
(* completion dispatch with the document read back                         *)
(***************************************************************************)
\* outcome: "update" (the status updateDoc rejects), "read" (the getDoc of the
\* reminder rejects) or "ok"; a rejection lands in handleComplete's catch
handleComplete(r, outcome, hasPermission, readOK, failing) ==
  /\ reminders[r].exists
  /\ nextId + Len(parentIds) - 1 <= MaxNotifications
  /\ LET doc == [reminders[r] EXCEPT !.status = "completed"]
         reminder == [id |-> r, createdBy |-> doc.createdBy, familyId |-> doc.familyId,
                      isTest |-> doc.isTest]
         out == sendCompletionNotification(reminder, currentUser, hasPermission,
                                           readOK, failing)
     IN IF outcome = "update"
        THEN /\ dispatch' = [NoDispatch EXCEPT !.flow = "update", !.reminderId = r]
             /\ UNCHANGED <<reminders, scheduled, nextId>>
        ELSE IF outcome = "read"
        THEN /\ reminders' = [reminders EXCEPT ![r] = doc]
             /\ dispatch' = [NoDispatch EXCEPT !.flow = "read", !.reminderId = r]
             /\ UNCHANGED <<scheduled, nextId>>
        ELSE /\ reminders' = [reminders EXCEPT ![r] = doc]
             /\ scheduled' = scheduled \cup out.added
             /\ nextId' = nextId + Cardinality(out.added)
             /\ dispatch' =
                  [flow |-> "ok", called |-> TRUE, reminderId |-> r, at |-> now,
                   creator |-> out.creator, completedBy |-> currentUser,
                   clean |-> hasPermission /\ readOK /\ failing = {},
                   readOK |-> readOK,
                   creatorOK |-> /\ users[doc.createdBy].exists
                                 /\ users[doc.createdBy].familyId = doc.familyId,
                   completerOK |-> /\ users[currentUser].exists
                                   /\ users[currentUser].familyId = doc.familyId,
                   proceeded |-> out.proceeded,
                   guardians |-> Range(parentIds),
                   familyOK |-> doc.familyId \in Families,
                   valid |-> {p \in Range(parentIds) :
                                /\ doc.familyId \in Families
                                /\ users[p].exists
                                /\ users[p].familyId = doc.familyId},
                   failing |-> failing \cap Range(parentIds),
                   added |-> out.added, result |-> out.result]
  /\ UNCHANGED <<asideVars, now, currentUser, users, parentIds, lastSchedule, edit,
                 guardVars>>

(***************************************************************************)
(* CompleteReminderScreen: loadReminderData and toggleChecklistItem        *)
(***************************************************************************)
\* the screen mounts for reminder r: setChecklist(data.checklist)
loadReminderData(r) ==
  /\ reminders[r].exists
  /\ completeScreen' = [reminderId |-> r, checklist |-> storedChecklist[r]]
  /\ UNCHANGED <<recurrenceVars, gateVars, locationVars, storedChecklist, responseVars,
                 engineVars>>

\* updatedChecklist.every(item => item.completed)
allCompleted(items) == \A i \in ChecklistItems : items[i]

\* the checkbox of itemId is pressed; updateOK: the updateDoc resolves
toggleChecklistItem(itemId, updateOK) ==
  LET r == completeScreen.reminderId
      updatedChecklist == [completeScreen.checklist EXCEPT ![itemId] = ~@]
  IN /\ r \in ReminderIds
     /\ completeScreen' = [completeScreen EXCEPT !.checklist = updatedChecklist]
     /\ IF updateOK
        THEN /\ storedChecklist' = [storedChecklist EXCEPT ![r] = updatedChecklist]
             /\ reminders' =
                  [reminders EXCEPT ![r].status =
                     IF allCompleted(updatedChecklist) THEN "completed" ELSE "pending"]
        ELSE UNCHANGED <<storedChecklist, reminders>>
     /\ UNCHANGED <<recurrenceVars, gateVars, locationVars, responseVars, now,
                    currentUser, users,
                    parentIds, serviceVars, lastSchedule, dispatch, edit, guardVars>>

(***************************************************************************)
(* setupNotificationHandler: handleNotification, the presentation decision *)
(***************************************************************************)
NotificationTypes == {"due", "completion", "location_alert", "none", "other"}

\* contents the engine builds: type 'due' and 'completion' carry isTest (the
\* title contains "test"); 'location_alert' and untyped contents carry none
Contents ==
  {c \in [type : NotificationTypes, isTest : BOOLEAN] :
     c.isTest => c.type \in {"due", "completion"}}

NoPresentation ==
  [called |-> FALSE, viewer |-> "none", role |-> "none", type |-> "none",
   isTest |-> FALSE, show |-> FALSE]

\* "Strict role-based blocking"
RoleBlocks(userRole, notificationType) ==
  \/ userRole = "child" /\ notificationType = "completion"
  \/ userRole = "parent" /\ notificationType # "completion"

\* TRUE: the notification is shown; FALSE: blockNotification.
\* viewer: auth.currentUser ("nobody" when signed out); lookupOK: getDoc resolves
handleNotification(content, viewer, lookupOK) ==
  IF viewer = "nobody" THEN FALSE
  ELSE IF ~lookupOK THEN FALSE
  ELSE IF ~users[viewer].exists THEN FALSE
  ELSE IF content.isTest THEN TRUE
  ELSE IF RoleBlocks(users[viewer].role, content.type) THEN FALSE
  ELSE TRUE

IdleGate == presented = NoPresentation

\* a notification with this content is delivered while currentUser is signed in
Present(content, lookupOK) ==
  /\ presented' =
       [called |-> TRUE, viewer |-> currentUser,
        role |-> IF currentUser \in Users /\ lookupOK
                 THEN users[currentUser].role ELSE "none",
        type |-> content.type, isTest |-> content.isTest,
        show |-> handleNotification(content, currentUser, lookupOK)]
  /\ UNCHANGED <<recurrenceVars, locationVars, checklistVars, responseVars,
                 engineVars>>

\* sign-out, or sign-in of any account (an account may lack a profile)
SwitchViewer(u) ==
  /\ u # currentUser
  /\ currentUser' = u
  /\ UNCHANGED <<recurrenceVars, locationVars, gateVars, checklistVars, responseVars, now,
                 storeVars,
                 serviceVars,
                 lastSchedule, dispatch, edit, guardVars>>

\* the handler's decision for notification n as it is delivered
shown(n) == handleNotification([type |-> n.type, isTest |-> n.isTest], currentUser, TRUE)

(***************************************************************************)
(* App.tsx: delivery callbacks, the duplicate guard, the Alert's buttons   *)
(***************************************************************************)
DuplicateNever(notificationId) == FALSE

\* handledNotifications.current.has(notificationId)
Duplicate(notificationId) == notificationId \in handledNotifications

\* the 'received' listener, called with notification n
receivedListener(n) ==
  /\ callbacks' = [callbacks EXCEPT ![n.id] = @ + 1]
  /\ IF Duplicate(n.id)
     THEN UNCHANGED <<handledNotifications, prompted, alerts>>
     ELSE /\ handledNotifications' = handledNotifications \cup {n.id}
          /\ prompted' = [prompted EXCEPT ![n.id] = @ + 1]
          /\ alerts' = alerts \cup {n}

\* a scheduled notification reaches its trigger date while the app runs: the
\* handler decides whether it is displayed, the 'received' listener is called
Fire(n) ==
  /\ n \in scheduled
  /\ n.date <= now
  /\ scheduled' = scheduled \ {n}
  /\ fired' = fired \cup {n}
  /\ receivedListener(n)
  /\ tray' = IF shown(n) THEN tray \cup {n} ELSE tray
  /\ UNCHANGED <<restVars, tapPrompted, tapAlerts, now, currentUser, storeVars, nextId,
                 lastSchedule, dispatch, edit>>

\* the platform delivers the 'received' callback of a fired notification again
Redeliver(n) ==
  /\ n \in fired
  /\ callbacks[n.id] < MaxDeliveries
  /\ receivedListener(n)
  /\ UNCHANGED <<asideVars, now, currentUser, storeVars, serviceVars, lastSchedule,
                 dispatch, edit, fired>>

\* the OK button: Notifications.dismissNotificationAsync(notificationId)
AlertOk(n) ==
  /\ n \in alerts
  /\ alerts' = alerts \ {n}
  /\ tray' = tray \ {n}
  /\ UNCHANGED <<restVars, tapPrompted, tapAlerts, now, currentUser, storeVars,
                 serviceVars, lastSchedule, dispatch, edit, fired, handledNotifications,
                 callbacks, prompted>>

\* the Snooze button: snoozeCount increment, cancel of the original identifier,
\* a copy scheduled 60 seconds ahead; each step catches its own failure
snooze(n, updateOK, scheduleOK) ==
  /\ reminders' = IF updateOK /\ reminders[n.reminderId].exists
                  THEN [reminders EXCEPT ![n.reminderId].snoozeCount = @ + 1]
                  ELSE reminders
  /\ LET left == cancelScheduledNotification(scheduled, n.id)
     IN IF scheduleOK
        THEN /\ scheduled' = left \cup {[n EXCEPT !.id = nextId,
                                                  !.date = now + SNOOZE_SECONDS]}
             /\ nextId' = nextId + 1
        ELSE /\ scheduled' = left
             /\ nextId' = nextId

AlertSnooze(n, updateOK, scheduleOK) ==
  /\ n \in alerts
  /\ nextId <= MaxNotifications
  /\ reminders[n.reminderId].snoozeCount < MaxSnoozes
  /\ alerts' = alerts \ {n}
  /\ tray' = tray \ {n}
  /\ snooze(n, updateOK, scheduleOK)
  /\ UNCHANGED <<restVars, tapPrompted, tapAlerts, now, currentUser, users, parentIds,
                 lastSchedule, dispatch, edit, fired, handledNotifications, callbacks,
                 prompted>>

\* the 'response' listener: the user taps notification n where it is displayed
responseListener(n) ==
  /\ n \in tray
  /\ tray' = tray \ {n}
  /\ IF n.type = "completion"
     THEN UNCHANGED <<tapPrompted, tapAlerts>>
     ELSE /\ tapPrompted' = [tapPrompted EXCEPT ![n.id] = @ + 1]
          /\ tapAlerts' = tapAlerts \cup {n}
  /\ UNCHANGED <<restVars, engineVars>>

\* the OK button of the response listener's Alert
ResponseOk(n) ==
  /\ n \in tapAlerts
  /\ tapAlerts' = tapAlerts \ {n}
  /\ UNCHANGED <<restVars, tray, tapPrompted, engineVars>>

\* the Snooze button of the response listener's Alert: the same steps
ResponseSnooze(n, updateOK, scheduleOK) ==
  /\ n \in tapAlerts
  /\ nextId <= MaxNotifications
  /\ reminders[n.reminderId].snoozeCount < MaxSnoozes
  /\ tapAlerts' = tapAlerts \ {n}
  /\ snooze(n, updateOK, scheduleOK)
  /\ UNCHANGED <<restVars, tray, tapPrompted, now, currentUser, users, parentIds,
                 lastSchedule, dispatch, edit, guardVars>>

\* Navigation mounts in a fresh app session: setupNotifications clears the
\* handled set before it registers the listeners; nothing in memory survives
setupNotifications ==
  /\ fired # {}
  /\ handledNotifications' = {}
  /\ callbacks' = [i \in NotificationIds |-> 0]
  /\ prompted' = [i \in NotificationIds |-> 0]
  /\ alerts' = {}
  /\ edit' = [e \in Editors |-> IdleEdit]
  /\ tray' = {}
  /\ tapAlerts' = {}
  /\ tapPrompted' = [i \in NotificationIds |-> 0]
  /\ UNCHANGED <<restVars, now, currentUser, storeVars, serviceVars, lastSchedule,
                 dispatch, fired>>

(***************************************************************************)
(* LocationService                                                         *)
(***************************************************************************)
MOVEMENT_THRESHOLD_METERS == 20
MaxSubscriptions == 2
MaxPending == 2
MaxAlerts == 2

TrackedIds == {"r1", "r2"}
Positions == {0, 20, 21, 45}
NoLocation == [set |-> FALSE, latitude |-> 0]
NoUpdate == [called |-> FALSE, reminderId |-> "none", at |-> 0, tracked |-> FALSE, turn |-> 0]

\* great-circle distance of two points of one meridian: the arc between them
calculateDistance(lat1, lat2) == IF lat1 >= lat2 THEN lat1 - lat2 ELSE lat2 - lat1

IdleLocation ==
  /\ position = 0
  /\ reminderLocations = [r \in TrackedIds |-> NoLocation]
  /\ storedLocation = [r \in TrackedIds |-> NoLocation]
  /\ locationSubscription = None
  /\ subscriptions = {}
  /\ nextSubscription = 1
  /\ pendingAlerts = [r \in TrackedIds |-> 0]
  /\ movementAlerts = [r \in TrackedIds |-> 0]
  /\ lastUpdate = NoUpdate
  /\ timers = {}

\* the device moves
Move(p) ==
  /\ p # position
  /\ position' = p
  /\ UNCHANGED <<recurrenceVars, gateVars, engineVars, checklistVars, responseVars,
                 reminderLocations,
                 storedLocation, locationSubscription, subscriptions, nextSubscription,
                 pendingAlerts, movementAlerts, lastUpdate, timers>>

\* outcome: "denied" (requestPermissions false), "position" (getCurrentPositionAsync
\* rejects), "update" (updateDoc rejects, after reminderLocations.set),
\* "watch" (watchPositionAsync rejects) or "ok"
PermissionAssumed(outcome) == TRUE

\* const hasPermission = await this.requestPermissions()
hasLocationPermission(outcome) == outcome # "denied"

\* the location state one run of startLocationTracking leaves behind
trackingAfter(reminderId, outcome) ==
  LET here == [set |-> TRUE, latitude |-> position]
      granted == hasLocationPermission(outcome)
      located == granted /\ outcome # "position"
      written == located /\ outcome # "update"
      watching == written /\ outcome # "watch"
  IN [reminderLocations |->
        IF located THEN [reminderLocations EXCEPT ![reminderId] = here]
        ELSE reminderLocations,
      storedLocation |->
        IF written THEN [storedLocation EXCEPT ![reminderId] = here]
        ELSE storedLocation,
      locationSubscription |->
        IF watching THEN nextSubscription ELSE locationSubscription,
      subscriptions |->
        IF watching
        THEN subscriptions \cup {[handle |-> nextSubscription, reminderId |-> reminderId]}
        ELSE subscriptions,
      nextSubscription |->
        IF watching THEN nextSubscription + 1 ELSE nextSubscription]

startLocationTracking(reminderId, outcome) ==
  /\ nextSubscription <= MaxSubscriptions
  /\ LET after == trackingAfter(reminderId, outcome)
     IN /\ reminderLocations' = after.reminderLocations
        /\ storedLocation' = after.storedLocation
        /\ locationSubscription' = after.locationSubscription
        /\ subscriptions' = after.subscriptions
        /\ nextSubscription' = after.nextSubscription
  /\ UNCHANGED <<recurrenceVars, gateVars, engineVars, checklistVars, responseVars,
                 position, pendingAlerts,
                 movementAlerts, lastUpdate, timers>>

\* a tracking timer runs out: its callback calls startLocationTracking
TimerFires(t, outcome) ==
  /\ t \in timers
  /\ t.at <= now
  /\ nextSubscription <= MaxSubscriptions
  /\ timers' = timers \ {t}
  /\ LET after == trackingAfter(t.reminderId, outcome)
     IN /\ reminderLocations' = after.reminderLocations
        /\ storedLocation' = after.storedLocation
        /\ locationSubscription' = after.locationSubscription
        /\ subscriptions' = after.subscriptions
        /\ nextSubscription' = after.nextSubscription
  /\ UNCHANGED <<recurrenceVars, gateVars, engineVars, checklistVars, responseVars,
                 position, pendingAlerts,
                 movementAlerts, lastUpdate>>

FartherOrEqual(distance) == distance >= MOVEMENT_THRESHOLD_METERS

\* distance > this.MOVEMENT_THRESHOLD_METERS
MovedAway(distance) == distance > MOVEMENT_THRESHOLD_METERS

\* a watcher's callback: checkLocationChange(reminderId, newLocation) up to its
\* await of Notifications.scheduleNotificationAsync
checkLocationChange(sub) ==
  LET r == sub.reminderId
      reminderLocation == reminderLocations[r]
      distance == calculateDistance(reminderLocation.latitude, position)
  IN /\ sub \in subscriptions
     /\ pendingAlerts[r] < MaxPending
     /\ lastUpdate' = [called |-> TRUE, reminderId |-> r, at |-> position,
                       tracked |-> reminderLocation.set, turn |-> 1 - lastUpdate.turn]
     /\ pendingAlerts' =
          IF reminderLocation.set /\ MovedAway(distance)
          THEN [pendingAlerts EXCEPT ![r] = @ + 1]
          ELSE pendingAlerts
     /\ UNCHANGED <<recurrenceVars, gateVars, engineVars, checklistVars, responseVars,
                    position, reminderLocations,
                    storedLocation, locationSubscription, subscriptions,
                    nextSubscription, movementAlerts, timers>>

\* this.reminderLocations.delete(reminderId)
deleteLocation(locations, reminderId) == [locations EXCEPT ![reminderId] = NoLocation]

\* the schedule call of a pending checkLocationChange resolves: the alert is
\* shown, then stopLocationTracking(reminderId) runs
alertScheduled(r) ==
  /\ pendingAlerts[r] > 0
  /\ movementAlerts[r] < MaxAlerts
  /\ pendingAlerts' = [pendingAlerts EXCEPT ![r] = @ - 1]
  /\ movementAlerts' = [movementAlerts EXCEPT ![r] = @ + 1]
  /\ subscriptions' = {s \in subscriptions : s.handle # locationSubscription}
  /\ locationSubscription' = None
  /\ reminderLocations' = deleteLocation(reminderLocations, r)
  /\ UNCHANGED <<recurrenceVars, gateVars, engineVars, checklistVars, responseVars,
                 position, storedLocation,
                 nextSubscription, lastUpdate, timers>>

\* the schedule call rejects: the rejection is unhandled, nothing else runs
alertRejected(r) ==
  /\ pendingAlerts[r] > 0
  /\ pendingAlerts' = [pendingAlerts EXCEPT ![r] = @ - 1]
  /\ UNCHANGED <<recurrenceVars, gateVars, engineVars, checklistVars, responseVars,
                 position, reminderLocations,
                 storedLocation, locationSubscription, subscriptions, nextSubscription,
                 movementAlerts, lastUpdate, timers>>

(***************************************************************************)
(* Specifications                                                          *)
(***************************************************************************)
\* the ways one run of handleComplete can go: the first call that fails
\* decides it, so the calls after it are not varied
CompletionRuns ==
  {run \in [outcome : {"ok", "update", "read"}, hasPermission : BOOLEAN,
            readOK : BOOLEAN, failing : SUBSET Range(parentIds)] :
     /\ run.outcome # "ok" => run.hasPermission /\ run.readOK /\ run.failing = {}
     /\ ~run.hasPermission => run.readOK /\ run.failing = {}
     /\ ~run.readOK => run.failing = {}}

Init ==
  IdleRecurrence /\ InitEngine /\ IdleGate /\ IdleLocation /\ IdleChecklist /\ IdleResponse

\* the scheduler on its own: create, edit, complete, delivery
Next ==
  \/ Tick
  \/ \E r \in ReminderIds, due \in Times, test \in {FALSE}, p, rd, sv \in BOOLEAN :
       AddReminderSubmit(r, due, test, p, rd, sv)
  \/ \E e \in Editors, r \in ReminderIds : EditOpen(e, r)
  \/ \E e \in Editors, ok \in BOOLEAN : EditEnumerate(e, ok)
  \/ \E e \in Editors, ok \in BOOLEAN : EditCancel(e, ok)
  \/ \E e \in Editors, due \in Times, test \in {FALSE}, ok \in BOOLEAN :
       EditUpdate(e, due, test, ok)
  \/ \E e \in Editors, p, rd, sv \in BOOLEAN : EditSchedule(e, p, rd, sv)
  \/ \E e \in Editors : EditClose(e)
  \/ \E r \in ReminderIds, p \in BOOLEAN : handleComplete(r, "ok", p, TRUE, {})
  \/ \E n \in scheduled : Fire(n)

Spec == Init /\ [][Next]_vars

\* delivery on its own: the guard, the Alert buttons, a fresh session
NextDelivery ==
  \/ Tick
  \/ \E r \in ReminderIds, due \in Times, test \in {FALSE}, p, rd, sv \in BOOLEAN :
       AddReminderSubmit(r, due, test, p, rd, sv)
  \/ \E n \in scheduled : Fire(n)
  \/ \E n \in fired : Redeliver(n)
  \/ \E n \in alerts : AlertOk(n)
  \/ \E n \in alerts, up, sv \in BOOLEAN : AlertSnooze(n, up, sv)
  \/ setupNotifications

SpecDelivery == Init /\ [][NextDelivery]_vars

\* the completion dispatch on its own: family membership, create, complete
NextDispatch ==
  \/ Tick
  \/ \E u \in {"p1", "p2", "c1"} : SignIn(u)
  \/ \E u \in Joiners, ok \in BOOLEAN : registerWithFamilyInvite(u, ok)
  \/ \E left \in {"deleted", "moved"} : UserDocChanged("p2", left)
  \/ \E r \in ReminderIds, due \in {MaxTicks * TickSeconds}, test \in {FALSE},
       p, rd \in {TRUE}, sv \in BOOLEAN :
       AddReminderSubmit(r, due, test, p, rd, sv)
  \/ \E r \in ReminderIds, run \in CompletionRuns :
       handleComplete(r, run.outcome, run.hasPermission, run.readOK, run.failing)

SpecDispatch == Init /\ [][NextDispatch]_vars

NextRecurrence == ComputeNextOccurrence

\* every argument and clock the bounds allow, nothing else running
InitOccurrence ==
  InitRecurrence /\ InitEngine /\ IdleGate /\ IdleLocation /\ IdleChecklist /\ IdleResponse

SpecRecurrence == InitOccurrence /\ [][NextRecurrence]_vars

\* the scan on its own: as InitOccurrence, and also a recurrenceConfig whose
\* selectedDays is empty, for which the loop accepts no day
InitScan ==
  /\ startDate \in Instants
  /\ selectedDays \in DaySets \cup {{}}
  /\ weekFrequency \in 1..MaxWeekFrequency
  /\ today \in {d * DayUnits : d \in 0..MaxDay}
  /\ nextDate = NoDate
  /\ daysScanned = 0
  /\ storedDue = today
  /\ recurringCall = NoRecurringCall
  /\ InitEngine /\ IdleGate /\ IdleLocation /\ IdleChecklist /\ IdleResponse

NextScan == ComputeNextOccurrence

SpecScan == InitScan /\ [][NextScan]_vars

\* recurring reminders handed to the scheduler: every recurrence
\* configuration, a clock at midnight or late in the day, a stored dueDate a
\* day before or a day after the clock
InitRecurring ==
  /\ startDate \in Instants
  /\ selectedDays \in DaySets
  /\ weekFrequency \in 1..MaxWeekFrequency
  /\ today \in {d * DayUnits + t : d \in 0..MaxDay, t \in {0, DayUnits - 1}}
  /\ nextDate = NoDate
  /\ daysScanned = 0
  /\ storedDue \in {today - DayUnits, today + DayUnits}
  /\ recurringCall = NoRecurringCall
  /\ InitEngine /\ IdleGate /\ IdleLocation /\ IdleChecklist /\ IdleResponse

NextRecurring == ScheduleRecurringReminder

SpecRecurring == InitRecurring /\ [][NextRecurring]_vars

\* the presentation handler on every viewer and content
NextGate ==
  \/ \E c \in Contents, ok \in BOOLEAN : Present(c, ok)
  \/ \E u \in Users \cup {"nobody"} : SwitchViewer(u)

SpecGate == Init /\ [][NextGate]_vars

\* location tracking on its own
NextLocation ==
  \/ \E p \in Positions : Move(p)
  \/ \E r \in TrackedIds, o \in {"denied", "position", "update", "watch", "ok"} :
       startLocationTracking(r, o)
  \/ \E sub \in subscriptions : checkLocationChange(sub)
  \/ \E r \in TrackedIds : alertScheduled(r)
  \/ \E r \in TrackedIds : alertRejected(r)

SpecLocation == Init /\ [][NextLocation]_vars

\* scheduling and tracking together: a parent creates a task, edits move its
\* due date, timers and notifications run out, the task is completed
NextTracking ==
  \/ Tick
  \/ \E r \in ReminderIds : AddReminderSubmit(r, TickSeconds, FALSE, TRUE, TRUE, TRUE)
  \/ \E e \in Editors, r \in ReminderIds : EditOpen(e, r)
  \/ \E e \in Editors : EditEnumerate(e, TRUE)
  \/ \E e \in Editors : EditCancel(e, TRUE)
  \/ \E e \in Editors : EditUpdate(e, MaxTicks * TickSeconds, FALSE, TRUE)
  \/ \E e \in Editors, sv \in BOOLEAN : EditSchedule(e, TRUE, TRUE, sv)
  \/ \E e \in Editors : EditClose(e)
  \/ \E r \in ReminderIds : handleComplete(r, "ok", TRUE, TRUE, {})
  \/ \E n \in scheduled : Fire(n)
  \/ \E t \in timers, o \in {"denied", "ok"} : TimerFires(t, o)
  \/ \E p \in {0, 2 * MOVEMENT_THRESHOLD_METERS + 5} : Move(p)
  \/ \E sub \in subscriptions : checkLocationChange(sub)
  \/ \E r \in ReminderIds : alertScheduled(r)

SpecTracking == Init /\ [][NextTracking]_vars

\* the completion screen: a parent or the child creates the task, the
\* checklist is ticked off and un-ticked, Complete is pressed
NextCompletion ==
  \/ Tick
  \/ \E u \in {"p1", "c1"} : SignIn(u)
  \/ \E r \in ReminderIds :
       AddReminderSubmit(r, MaxTicks * TickSeconds, FALSE, TRUE, TRUE, TRUE)
  \/ \E r \in ReminderIds : loadReminderData(r)
  \/ \E i \in ChecklistItems, ok \in BOOLEAN : toggleChecklistItem(i, ok)
  \/ \E r \in ReminderIds, o \in {"ok", "update"} : handleComplete(r, o, TRUE, TRUE, {})

SpecCompletion == Init /\ [][NextCompletion]_vars

\* delivery with the tap: the child signs in, tasks are created and completed,
\* notifications fire, are tapped, and the buttons of both Alerts are pressed
NextResponse ==
  \/ Tick
  \/ \E u \in {"p1", "c1"} : SignIn(u)
  \/ \E r \in ReminderIds :
       AddReminderSubmit(r, TickSeconds, FALSE, TRUE, TRUE, TRUE)
  \/ \E r \in ReminderIds : handleComplete(r, "ok", TRUE, TRUE, {})
  \/ \E n \in scheduled : Fire(n)
  \/ \E n \in tray : responseListener(n)
  \/ \E n \in alerts : AlertOk(n)
  \/ \E n \in alerts, up, sv \in BOOLEAN : AlertSnooze(n, up, sv)
  \/ \E n \in tapAlerts : ResponseOk(n)
  \/ \E n \in tapAlerts, up, sv \in BOOLEAN : ResponseSnooze(n, up, sv)

SpecResponse == Init /\ [][NextResponse]_vars

\* create, edit and snooze on one device, every call resolving
NextReschedule ==
  \/ Tick
  \/ \E r \in ReminderIds, due \in Times : AddReminderSubmit(r, due, FALSE, TRUE, TRUE, TRUE)
  \/ \E e \in Editors, r \in ReminderIds : EditOpen(e, r)
  \/ \E e \in Editors : EditEnumerate(e, TRUE)
  \/ \E e \in Editors : EditCancel(e, TRUE)
  \/ \E e \in Editors, due \in Times : EditUpdate(e, due, FALSE, TRUE)
  \/ \E e \in Editors : EditSchedule(e, TRUE, TRUE, TRUE)
  \/ \E e \in Editors : EditClose(e)
  \/ \E n \in scheduled : Fire(n)
  \/ \E n \in alerts : AlertOk(n)
  \/ \E n \in alerts : AlertSnooze(n, TRUE, TRUE)

SpecReschedule == Init /\ [][NextReschedule]_vars

\* C1: the date getNextOccurrence returns has a selected weekday and lies a
\* whole multiple of weekFrequency weeks after startDate:
\* floor(daysSince(startDate) / 7) mod weekFrequency = 0.
C1_NextOccurrenceConforms ==
  nextDate # NoDate =>
    /\ getDay(nextDate) \in selectedDays
    /\ (((nextDate - startDate) \div DayUnits) \div 7) % weekFrequency = 0

\* a scan result two or more weeks after startDate under a 2-week cadence
C1_Witness ==
  /\ nextDate # NoDate
  /\ weekFrequency = 2
  /\ nextDate >= startDate + 2 * WeekUnits
  /\ getDay(startDate) \notin selectedDays

\* C2, as stated: a schedule call whose dueDate is not strictly in the future
\* (dueDate <= now) returns none, reaches no schedule call of the notification
\* service and adds nothing to the scheduled notifications.
C2_NotFutureSkipped ==
  lastSchedule.called /\ lastSchedule.dueDate <= lastSchedule.at =>
    /\ lastSchedule.result = None
    /\ ~lastSchedule.reached
    /\ lastSchedule.added = 0

\* C2, amended: a schedule call whose dueDate is strictly in the past
\* (dueDate < now) returns none, reaches no schedule call of the notification
\* service and adds nothing to the scheduled notifications.
C2_PastDueSkipped ==
  lastSchedule.called /\ lastSchedule.dueDate < lastSchedule.at =>
    /\ lastSchedule.result = None
    /\ ~lastSchedule.reached
    /\ lastSchedule.added = 0

C2_Witness ==
  /\ lastSchedule.called
  /\ lastSchedule.dueDate < lastSchedule.at
  /\ lastSchedule.result = None
  /\ \E r \in ReminderIds : reminders[r].exists /\ users[reminders[r].createdBy].exists

\* C3: in one app session the first 'received' callback of a notification
\* identifier records it in the handled set and prompts the user, and every
\* later callback of that identifier prompts nobody: once a callback has run
\* the identifier is handled and has prompted exactly once.
C3_ProcessedOncePerSession ==
  \A i \in NotificationIds :
    /\ prompted[i] <= 1
    /\ callbacks[i] >= 1 => i \in handledNotifications /\ prompted[i] = 1
    /\ i \in handledNotifications => callbacks[i] >= 1

C3_Witness == \E i \in NotificationIds : callbacks[i] = 2 /\ prompted[i] = 1

\* C4, as stated: for a parent or child viewer, a 'due' and a movement-alert
\* notification are shown exactly to a child, a 'completion' notification is
\* shown exactly to a parent.
C4_GateTable ==
  /\ presented.called
  /\ presented.role \in {"parent", "child"}
  /\ presented.type \in {"due", "location_alert", "completion"}
  => presented.show = IF presented.type = "completion"
                      THEN presented.role = "parent"
                      ELSE presented.role = "child"

\* C5: a position update raises an alert only in an active session and only
\* beyond 20 m, and otherwise changes nothing; each alert that is raised is
\* raised once and leaves its task untracked, so that an update handled after
\* it raises no further alert.
C5_AlertOnceBeyondThreshold ==
  [][/\ lastUpdate' # lastUpdate =>
          LET r == lastUpdate'.reminderId
              beyond == /\ reminderLocations[r].set
                        /\ calculateDistance(reminderLocations[r].latitude, position)
                             > MOVEMENT_THRESHOLD_METERS
          IN /\ reminderLocations' = reminderLocations
             /\ movementAlerts' = movementAlerts
             /\ pendingAlerts' = IF beyond
                                 THEN [pendingAlerts EXCEPT ![r] = @ + 1]
                                 ELSE pendingAlerts
     /\ \A r \in TrackedIds :
          movementAlerts'[r] # movementAlerts[r] =>
            /\ movementAlerts'[r] = movementAlerts[r] + 1
            /\ pendingAlerts'[r] = pendingAlerts[r] - 1
            /\ ~reminderLocations'[r].set
     /\ \A r \in TrackedIds :
          pendingAlerts'[r] > pendingAlerts[r] => lastUpdate' # lastUpdate
    ]_vars

C5_Witness ==
  \E r \in TrackedIds :
    /\ movementAlerts[r] = 1
    /\ pendingAlerts[r] = 0
    /\ lastUpdate.called
    /\ lastUpdate.reminderId = r
    /\ ~lastUpdate.tracked
    /\ lastUpdate.at = 45
    /\ position = 45

\* C6: a completion dispatch that runs without a failure, for a task created
\* by a parent, schedules one completion notification per valid guardian of
\* the family, each firing 30 seconds after the dispatch; for a task created
\* by a child it schedules none.
C6_CompletionFanOut ==
  dispatch.called /\ dispatch.clean /\ dispatch.completerOK =>
    /\ dispatch.creator = "parent" =>
         /\ Cardinality(dispatch.added) = Cardinality(dispatch.valid)
         /\ \A n \in dispatch.added :
              n.type = "completion" /\ n.date = dispatch.at + COMPLETION_DELAY
    /\ dispatch.creator = "child" => dispatch.added = {}

C6_Witness ==
  /\ dispatch.called
  /\ dispatch.clean
  /\ dispatch.creator = "parent"
  /\ Cardinality(dispatch.added) = 2
  /\ dispatch.at > 0

\* C7, as stated: after the cancel of a task's notification has completed,
\* zero scheduled notifications reference that task id.
C7_CancelLeavesNone ==
  \A e \in Editors :
    edit[e].pc \in {"update", "schedule", "done"} /\ edit[e].existing # None =>
      edit[e].remaining = 0

\* C8: in one edit-save flow the cancel of the notification found for the task
\* has completed before the schedule call begins: from then on the cancelled
\* notification is not scheduled, so it is never scheduled together with the
\* new one.
C8_OldGoneBeforeNew ==
  \A e \in Editors :
    edit[e].pc \in {"schedule", "done"} /\ edit[e].existing # None =>
      /\ \A n \in scheduled : n.id # edit[e].existing
      /\ edit[e].newId # edit[e].existing

C8_Witness ==
  \E e \in Editors :
    /\ edit[e].pc = "done"
    /\ edit[e].existing # None
    /\ edit[e].newId # None
    /\ \E n \in scheduled : n.id = edit[e].newId

\* C9, as stated for the edit: an edit-save fails to update the task document
\* only when the document update itself fails, never because a notification
\* call rejected.
C9_EditSurvivesNotificationFailure ==
  \A e \in Editors : edit[e].pc = "failed" => edit[e].cause = "store"

\* C10, as stated: a notification whose category is none of due, completion
\* and movement alert is suppressed for every viewer.
C10_UnknownSuppressed ==
  /\ presented.called
  /\ presented.type \notin {"due", "completion", "location_alert"}
  => ~presented.show

\* C11, as stated: a schedule call on a recurring reminder decides on the
\* computed next occurrence, whatever the stored dueDate: it returns none
\* exactly when getNextOccurrence is not strictly in the future and otherwise
\* schedules a notification firing exactly at that next occurrence.
C11_DecidesOnNextOccurrence ==
  recurringCall.called =>
    LET nd == getNextOccurrence(startDate, selectedDays, weekFrequency, today)
        expected == IF nd > today THEN nd ELSE NoDate
    IN recurringCall.legacy = expected /\ recurringCall.current = expected

\* C12: a completion dispatch that reaches its fan-out schedules a completion
\* notification for exactly the listed guardians whose user record exists and
\* names the task's family (and whose own calls do not fail): a guardian with
\* a missing or foreign record gets none and takes none away from the others.
C12_RevalidatedPerGuardian ==
  dispatch.called /\ dispatch.proceeded =>
    /\ Cardinality(dispatch.added) = Cardinality(dispatch.valid \ dispatch.failing)
    /\ \A n \in dispatch.added : n.type = "completion" /\ n.reminderId = dispatch.reminderId

C12_Witness ==
  /\ dispatch.called
  /\ dispatch.proceeded
  /\ dispatch.failing = {}
  /\ Cardinality(dispatch.added) = 1
  /\ \E p \in dispatch.guardians : ~users[p].exists
  /\ \E p \in dispatch.guardians \ dispatch.valid :
       users[p].exists /\ users[p].familyId # FamilyId

\* C13, as stated: when the schedule call of one guardian fails while another
\* guardian's notification is scheduled, the dispatch returns a handle of a
\* scheduled notification, not none.
C13_PartialFailureReturnsHandles ==
  /\ dispatch.called
  /\ dispatch.proceeded
  /\ dispatch.failing # {}
  /\ dispatch.added # {}
  => dispatch.result # None

\* C14: when the creator record, the completer record or the family record
\* cannot be read at dispatch time, the dispatch schedules nothing and returns
\* none, handleComplete ends without an error, and the task is completed.
C14_UnreadableIsNoOp ==
  /\ dispatch.called
  /\ ~(dispatch.readOK /\ dispatch.creatorOK /\ dispatch.completerOK /\ dispatch.familyOK)
  => /\ dispatch.added = {}
     /\ dispatch.result = None
     /\ dispatch.flow = "ok"
     /\ reminders[dispatch.reminderId].status = "completed"

C14_Witness ==
  /\ dispatch.called
  /\ dispatch.readOK
  /\ dispatch.creatorOK
  /\ dispatch.creator = "parent"
  /\ ~dispatch.completerOK
  /\ dispatch.valid # {}
  /\ reminders[dispatch.reminderId].status = "completed"

\* C16, as stated: once stopLocationTracking(r) has run (it runs when the
\* movement alert of r has been scheduled), r has no anchor and no position
\* watcher of r is still delivering updates.
C16_StopLeavesNothing ==
  [][\A r \in TrackedIds :
       movementAlerts'[r] # movementAlerts[r] =>
         /\ ~reminderLocations'[r].set
         /\ \A s \in subscriptions' : s.reminderId # r]_vars

\* C17: a start whose permission request is refused changes nothing: no
\* anchor in memory, none in the reminder document, no subscription.
C17_DeniedStartsNothing ==
  \A r \in TrackedIds :
    LET after == trackingAfter(r, "denied")
    IN /\ after.reminderLocations = reminderLocations
       /\ after.storedLocation = storedLocation
       /\ after.locationSubscription = locationSubscription
       /\ after.subscriptions = subscriptions
       /\ after.nextSubscription = nextSubscription

\* r1 is tracked away from where the device now is, r2 never was: a granted
\* start of r2 here would record an anchor and open a second watcher
C17_Witness ==
  /\ reminderLocations["r1"].set
  /\ reminderLocations["r1"].latitude # position
  /\ subscriptions # {}
  /\ ~reminderLocations["r2"].set
  /\ ~storedLocation["r2"].set
  /\ nextSubscription <= MaxSubscriptions

\* C15, as stated: a run of startLocationTracking that a timer starts for a
\* task, and that records an anchor or opens a watcher, comes with a due
\* notification of that task whose date has been reached and that has fired or
\* is about to (it was neither cancelled nor replaced by one for a later date).
C15_TrackingFollowsDueNotification ==
  [][\A t \in timers \ timers' :
       \/ reminderLocations'[t.reminderId] # reminderLocations[t.reminderId]
       \/ subscriptions' # subscriptions
       => \E n \in fired \cup scheduled :
            n.type = "due" /\ n.reminderId = t.reminderId /\ n.date <= now]_vars

\* C18, as stated: a task whose stored status is completed has no anchor in
\* memory and no position watcher.
C18_CompletedIsUntracked ==
  \A r \in ReminderIds :
    reminders[r].status = "completed" =>
      /\ ~reminderLocations[r].set
      /\ \A s \in subscriptions : s.reminderId # r

\* C19, as stated: a stored status that is completed stays completed in every
\* step.
C19_CompletedStaysCompleted ==
  [][\A r \in ReminderIds :
       reminders[r].status = "completed" => reminders'[r].status = "completed"]_vars

\* C20, as stated: the step that takes a parent-created task from pending to
\* completed runs the completion dispatch for that task.
C20_CompletionIsDispatched ==
  [][\A r \in ReminderIds :
       /\ reminders[r].status = "pending"
       /\ reminders'[r].status = "completed"
       /\ users[reminders[r].createdBy].role = "parent"
       => dispatch'.called /\ dispatch'.reminderId = r]_vars

\* C25: getNextOccurrence ends after examining at most 7 x weekFrequency x 2
\* candidate days, and when none of the days today+1 .. today+14 x weekFrequency
\* is accepted (and the start-date shortcut does not apply) it returns the last
\* of them, at startDate's hour and minute.
C25_ScanIsBounded ==
  nextDate # NoDate =>
    LET td == setHours(today, startDate)
        bound == 7 * weekFrequency * 2
        accepted == {k \in 1..bound :
                       /\ getDay(td + k * DayUnits) \in selectedDays
                       /\ Aligned(td + k * DayUnits, startDate, weekFrequency)}
    IN /\ daysScanned <= bound
       /\ ~startsLater(startDate, selectedDays, today) /\ accepted = {}
            => nextDate = td + bound * DayUnits /\ daysScanned = bound

\* a call with no selected day ran the loop to its bound under a 2-week cadence
C25_Witness ==
  /\ nextDate # NoDate
  /\ selectedDays = {}
  /\ weekFrequency = 2
  /\ daysScanned = 28
  /\ nextDate = setHours(today, startDate) + 28 * DayUnits

\* C26, as stated: when the shortcut does not apply, no day from today
\* (inclusive) up to the returned day is selected and aligned, and the result
\* carries startDate's hour and minute.
C26_FirstAcceptedFromToday ==
  nextDate # NoDate /\ ~startsLater(startDate, selectedDays, today) =>
    LET td == setHours(today, startDate)
    IN /\ \A k \in 0..(2 * 7 * MaxWeekFrequency) :
            td + k * DayUnits < nextDate =>
              ~(/\ getDay(td + k * DayUnits) \in selectedDays
                /\ Aligned(td + k * DayUnits, startDate, weekFrequency))
       /\ nextDate % DayUnits = ((startDate % DayUnits) \div SubMinute) * SubMinute

\* C29, as stated: the date getNextOccurrence returns is never earlier than
\* startDate.
C29_NotBeforeStart == nextDate # NoDate => nextDate >= startDate

\* C21, as stated: in one session a notification identifier raises at most
\* one Alert, counting the 'received' listener's and the response listener's.
C21_OnePromptPerIdentifier ==
  \A i \in NotificationIds : prompted[i] + tapPrompted[i] <= 1

\* C27, as stated: snoozeCount is never negative, and a step changes it only
\* by adding exactly 1 while the Snooze button of an Alert about a due
\* notification of that task is pressed.
C27_SnoozeCountCountsDueSnoozes ==
  [][\A r \in ReminderIds :
       /\ reminders'[r].snoozeCount >= 0
       /\ reminders'[r].snoozeCount # reminders[r].snoozeCount =>
            /\ reminders'[r].snoozeCount = reminders[r].snoozeCount + 1
            /\ \E n \in (alerts \ alerts') \cup (tapAlerts \ tapAlerts') :
                 n.reminderId = r /\ n.type = "due"]_vars

\* C22, as stated: the decision the handler took for a viewer of known role
\* is the decision it takes for every notification of the same category
\* presented to a viewer of that role, whatever the test flag and whatever
\* the outcome of the profile lookup.
C22_DecisionOfRoleAndCategory ==
  presented.called /\ presented.role \in {"parent", "child"} =>
    \A v \in Users, c \in Contents, lookupOK \in BOOLEAN :
      /\ users[v].exists
      /\ users[v].role = presented.role
      /\ c.type = presented.type
      => handleNotification(c, v, lookupOK) = presented.show

\* C23, as stated: at most one scheduled due notification references a task.
C23_OneDueNotificationPerTask ==
  \A r \in ReminderIds :
    Cardinality({n \in scheduled : n.reminderId = r /\ n.type = "due"}) <= 1

\* C24, as stated: a movement alert for a task is raised only while the
\* task's session is still there: the first alert ends the session, so a
\* session raises one alert at most.
C24_OneAlertPerSession ==
  [][\A r \in TrackedIds :
       movementAlerts'[r] > movementAlerts[r] => reminderLocations[r].set]_vars

\* C28, as stated (its frame half): the stop that follows a movement alert of
\* task r leaves the anchor and the position watchers of every other task as
\* they were.
C28_StopLeavesOthersAlone ==
  [][\A r \in TrackedIds :
       movementAlerts'[r] # movementAlerts[r] =>
         \A q \in TrackedIds \ {r} :
           /\ reminderLocations'[q] = reminderLocations[q]
           /\ {s \in subscriptions' : s.reminderId = q}
                = {s \in subscriptions : s.reminderId = q}]_vars

\* C30, as stated: after an edit whose document update failed, the
\* notification the edit found scheduled for the task is still scheduled (or
\* has fired in the meantime).
C30_FailedUpdateKeepsNotification ==
  \A e \in Editors :
    edit[e].pc = "failed" /\ edit[e].cause = "store" /\ edit[e].existing # None =>
      \E n \in scheduled \cup fired : n.id = edit[e].existing

====
